---- MODULE Spec2Model ----
(***************************************************************************)
(* A model of the release-engineering scripts of bokulich-lab/utilities:   *)
(*   scripts/update-env-files.py   (main, process_repo, select_latest_envs, *)
(*                                  write_new_env_file)                     *)
(*   scripts/update-milestones.py  (main, create_or_edit_milestone)         *)
(*   ci/get-tags.py                (get_latest/previous_dev_and_stable)     *)
(* Python strings are sequences of one-character strings, so that split,   *)
(* replace, endswith, the release regex and int() are computed, not        *)
(* assumed.  Optional[T] is a sequence of length at most one.              *)
(***************************************************************************)
EXTENDS Integers, Sequences, FiniteSets, TLC

\* ------------------------------------------------------------------ bounds
MaxFiles == 3
MaxText == 6
MaxTags == 3
MaxMsRepos == 2
MaxRepos == 2
MaxSeed == 2
MaxDeps == 2

\* ------------------------------------------------------- Python primitives
None == << >>
Some(x) == <<x>>
IsNone(o) == Len(o) = 0
Get(o) == o[1]

Min2(a, b) == IF a < b THEN a ELSE b

SeqRange(s) == {s[i] : i \in 1..Len(s)}

\* Characters of the model's strings, in code point order.
Alphabet == <<"-", ".", "0", "1", "2", "3", "4", "5", "6", "7", "8", "9",
              "a", "b", "c", "d", "e", "f", "g", "h", "i", "j", "k", "l", "m",
              "n", "o", "p", "q", "r", "s", "t", "u", "v", "w", "x", "y", "z">>

Ord(c) == CHOOSE i \in 1..Len(Alphabet) : Alphabet[i] = c

Digits == {"0", "1", "2", "3", "4", "5", "6", "7", "8", "9"}

DigitVal(c) == Ord(c) - Ord("0")

\* s[i..] starts with t
OccursAt(s, t, i) ==
    /\ i >= 1
    /\ i + Len(t) - 1 <= Len(s)
    /\ \A k \in 1..Len(t) : s[i + k - 1] = t[k]

\* str.find(t, from): the least index >= from where t occurs, 0 when none
Find(s, t, from) ==
    LET hits == {i \in from..(Len(s) - Len(t) + 1) : OccursAt(s, t, i)}
    IN  IF hits = {} THEN 0 ELSE CHOOSE i \in hits : \A j \in hits : i <= j

\* t in s
Contains(s, t) == Find(s, t, 1) # 0

\* s.endswith(t)
EndsWith(s, t) == Len(t) <= Len(s) /\ OccursAt(s, t, Len(s) - Len(t) + 1)

\* s[from..to] as Python slices it (empty when from > to)
Slice(s, from, to) == IF from > to THEN << >> ELSE SubSeq(s, from, to)

\* s.split(sep, maxsplit) for a non-empty sep; maxsplit = -1 is unlimited
RECURSIVE SplitFrom(_, _, _, _)
SplitFrom(s, sep, from, maxsplit) ==
    LET i == IF maxsplit = 0 THEN 0 ELSE Find(s, sep, from)
    IN  IF i = 0
        THEN <<Slice(s, from, Len(s))>>
        ELSE <<Slice(s, from, i - 1)>>
             \o SplitFrom(s, sep, i + Len(sep),
                          IF maxsplit < 0 THEN maxsplit ELSE maxsplit - 1)

Split(s, sep) == SplitFrom(s, sep, 1, -1)

SplitMax(s, sep, maxsplit) == SplitFrom(s, sep, 1, maxsplit)

\* s.replace(old, new) for a non-empty old: leftmost, non-overlapping
RECURSIVE ReplaceFrom(_, _, _, _)
ReplaceFrom(s, old, new, from) ==
    LET i == Find(s, old, from)
    IN  IF i = 0
        THEN Slice(s, from, Len(s))
        ELSE Slice(s, from, i - 1) \o new \o ReplaceFrom(s, old, new, i + Len(old))

\* str.replace with count=1: only the first occurrence is replaced
StrReplace_first_only(s, old, new) ==
    LET i == Find(s, old, 1)
    IN  IF Len(old) = 0 \/ i = 0 THEN s
        ELSE Slice(s, 1, i - 1) \o new \o Slice(s, i + Len(old), Len(s))

StrReplace(s, old, new) ==
    IF Len(old) = 0 THEN s ELSE ReplaceFrom(s, old, new, 1)

\* int(s) for a run of decimal digits (leading zeros drop out)
RECURSIVE ToInt(_)
ToInt(s) ==
    IF Len(s) = 0 THEN 0
    ELSE 10 * ToInt(SubSeq(s, 1, Len(s) - 1)) + DigitVal(s[Len(s)])

\* a < b for Python strings: lexicographic by code point
RECURSIVE StrLess(_, _)
StrLess(a, b) ==
    IF Len(b) = 0 THEN FALSE
    ELSE IF Len(a) = 0 THEN TRUE
    ELSE IF a[1] # b[1] THEN Ord(a[1]) < Ord(b[1])
    ELSE StrLess(Tail(a), Tail(b))

\* a < b for Python tuples of ints
RECURSIVE TupleLess(_, _)
TupleLess(a, b) ==
    IF Len(b) = 0 THEN FALSE
    ELSE IF Len(a) = 0 THEN TRUE
    ELSE IF a[1] # b[1] THEN a[1] < b[1]
    ELSE TupleLess(Tail(a), Tail(b))

\* ------------------------------------------- update-env-files.py constants
ENV_DIR_NAME == <<"e", "n", "v", "i", "r", "o", "n", "m", "e", "n", "t", "-",
                  "f", "i", "l", "e", "s">>
FILENAME_SUFFIX == <<".", "y", "m", "l">>
BRANCH_PREFIX == <<"e", "n", "v", "-", "f", "i", "l", "e", "-">>

Dash == <<"-">>
Dot == <<".">>
Qiime2Sep == <<"-", "q", "i", "i", "m", "e", "2", "-">>
Moshpit == <<"m", "o", "s", "h", "p", "i", "t">>
Metagenome == <<"m", "e", "t", "a", "g", "e", "n", "o", "m", "e">>
Tiny == <<"t", "i", "n", "y">>

\* re.fullmatch(r"\d+\.\d+", s)
IsReleaseToken(s) ==
    \E d \in 2..(Len(s) - 1) :
        /\ s[d] = "."
        /\ \A k \in 1..Len(s) : k # d => s[k] \in Digits

\* The name f"{plugin}-qiime2-{distribution}-{release}.yml"
EnvFileName(plugin, distribution, release) ==
    plugin \o Qiime2Sep \o distribution \o Dash \o release \o FILENAME_SUFFIX

\* Path.match of the pattern "*-qiime2-*-*.yml" (find_env_files)
GlobMatches(name) ==
    /\ EndsWith(name, FILENAME_SUFFIX)
    /\ \E i \in 1..Len(name) :
          /\ OccursAt(name, Qiime2Sep, i)
          /\ \E j \in (i + Len(Qiime2Sep))..(Len(name) - Len(FILENAME_SUFFIX)) :
                name[j] = "-"

\* A Path: the directory it lies in and its name
PathOf(parent, name) == [parent |-> parent, name |-> name]

\* find_env_files: the paths of env_dir, which holds the files `names`, that the
\* glob yields (in no promised order)
find_env_files(env_dir, names) == {PathOf(env_dir, n) : n \in {m \in names : GlobMatches(m)}}

parse_env_filename(path) ==
    IF ~EndsWith(path.name, FILENAME_SUFFIX) THEN None
    ELSE
    LET parts == Split(SubSeq(path.name, 1, Len(path.name) - Len(FILENAME_SUFFIX)),
                       Qiime2Sep)
    IN  IF Len(parts) # 2 THEN None
        ELSE
        LET rest == parts[2]
        IN  IF ~Contains(rest, Dash) THEN None
            ELSE
            LET dr == SplitMax(rest, Dash, 1)
            IN  IF ~IsReleaseToken(dr[2]) THEN None
                ELSE Some([path |-> path,
                           plugin_name |-> parts[1],
                           distribution |-> dr[1],
                           release |-> dr[2]])

\* release_key with the release read as a decimal fraction (2025.10 = 2025.1)
release_key_as_float(release) ==
    LET mm == Split(release, Dot)
        pad == [k \in 1..4 |-> IF k <= Len(mm[2]) THEN mm[2][k] ELSE "0"]
    IN  <<ToInt(mm[1]), ToInt(pad)>>

release_key(release) ==
    LET mm == Split(release, Dot) IN <<ToInt(mm[1]), ToInt(mm[2])>>

\* The loop of select_latest_envs over the listing, from its k-th entry on;
\* st = [key: Optional[Tuple[int,int]], envs: dict (plugin, distribution) -> info]
RECURSIVE ScanEnvs(_, _, _)
ScanEnvs(listing, k, st) ==
    IF k > Len(listing) THEN st
    ELSE
    LET parsed == parse_env_filename(listing[k])
    IN  IF IsNone(parsed) THEN ScanEnvs(listing, k + 1, st)
        ELSE
        LET info == Get(parsed)
            release_tuple == release_key(info.release)
            dkey == <<info.plugin_name, info.distribution>>
        IN  IF IsNone(st.key) \/ TupleLess(Get(st.key), release_tuple)
            THEN ScanEnvs(listing, k + 1,
                          [key |-> Some(release_tuple),
                           envs |-> [x \in {dkey} |-> info]])
            ELSE IF release_tuple = Get(st.key)
            THEN ScanEnvs(listing, k + 1,
                          [key |-> st.key,
                           envs |-> [x \in DOMAIN st.envs \cup {dkey} |->
                                        IF x = dkey THEN info ELSE st.envs[x]]])
            ELSE ScanEnvs(listing, k + 1, st)

\* The sort key of select_latest_envs: (plugin, distribution, release_key)
EnvSortLess(a, b) ==
    IF a.plugin_name # b.plugin_name THEN StrLess(a.plugin_name, b.plugin_name)
    ELSE IF a.distribution # b.distribution THEN StrLess(a.distribution, b.distribution)
    ELSE TupleLess(release_key(a.release), release_key(b.release))

\* sorted(S, key=...) for a set of infos with pairwise different keys
RECURSIVE SortedEnvs(_)
SortedEnvs(S) ==
    IF S = {} THEN << >>
    ELSE LET m == CHOOSE x \in S : \A y \in S \ {x} : ~EnvSortLess(y, x)
         IN  <<m>> \o SortedEnvs(S \ {m})

\* The moshpit-over-metagenome filter kept for every distribution (no filter)
KeepsEnv_no_filter(envs, dkey) == TRUE

\* Whether select_latest_envs keeps the entry of key dkey = (plugin, distribution)
KeepsEnv(envs, dkey) ==
    ~(dkey[2] = Metagenome /\ <<dkey[1], Moshpit>> \in DOMAIN envs)

\* select_latest_envs, given the listing find_env_files yields
select_latest_envs(listing) ==
    LET st == ScanEnvs(listing, 1, [key |-> None, envs |-> << >>])
        envs_for_latest == st.envs
    IN  IF DOMAIN envs_for_latest = {} THEN << >>
        ELSE SortedEnvs({envs_for_latest[x] :
                            x \in {y \in DOMAIN envs_for_latest :
                                      KeepsEnv(envs_for_latest, y)}})

\* The f-string of write_new_env_file and of process_repo's existence check
NewEnvName(latest, new_release) ==
    EnvFileName(latest.plugin_name, latest.distribution, new_release)

\* write_new_env_file on the file system fs (a function from paths to texts):
\* the exception raised ("none" when it returns), the file system it leaves
\* and the path it returns
write_new_env_file(fs, latest, new_release) ==
    LET new_path == PathOf(latest.path.parent, NewEnvName(latest, new_release))
    IN  IF new_path \in DOMAIN fs
        THEN [exc |-> "FileExistsError", fs |-> fs, path |-> None]
        ELSE IF latest.path \notin DOMAIN fs
        THEN [exc |-> "FileNotFoundError", fs |-> fs, path |-> None]
        ELSE
        LET text == fs[latest.path]
            updated == StrReplace(text, latest.release, new_release)
        IN  [exc |-> "none",
             fs |-> [q \in DOMAIN fs \cup {new_path} |->
                        IF q = new_path THEN updated ELSE fs[q]],
             path |-> Some(new_path)]

\* ------------------------------------------- update-env-files.py, process_repo
\* args.base_branch (its default)
base_branch == <<"m", "a", "i", "n">>

\* Line 339: branch = f"{BRANCH_PREFIX}{new_release}"
BranchName(new_release) == BRANCH_PREFIX \o new_release

\* Lines 321-329: the latest env files whose destination does not exist yet
PlannedLatest(fs, latest_envs, new_release) ==
    SelectSeq(latest_envs,
              LAMBDA l : PathOf(l.path.parent, NewEnvName(l, new_release)) \notin DOMAIN fs)

\* Lines 321-329: the destinations that exist already
AlreadyExisting(fs, latest_envs, new_release) ==
    LET hit == SelectSeq(latest_envs,
                   LAMBDA l : PathOf(l.path.parent, NewEnvName(l, new_release)) \in DOMAIN fs)
    IN  [k \in 1..Len(hit) |-> PathOf(hit[k].path.parent, NewEnvName(hit[k], new_release))]

\* Lines 304-366: why process_repo returns None before it touches the
\* repository, "" when it goes on.  kind: what the path is; slug: the
\* OWNER/REPO of the remote URL ("" when it is no GitHub URL)
SkipReason(kind, latest_envs, planned, has_remote, slug, args) ==
    IF kind = "not_dir" THEN "not a directory"
    ELSE IF kind = "not_git" THEN "not a git repository"
    ELSE IF kind = "no_env_dir" THEN "missing environment-files"
    ELSE IF Len(latest_envs) = 0 THEN "no matching env files"
    ELSE IF Len(planned) = 0 THEN "all env files exist"
    ELSE IF ~has_remote THEN "no remote"
    ELSE IF args.create_pr /\ slug = "" THEN "no slug"
    ELSE IF args.create_pr /\ args.pr_org /\ slug = "o/" THEN "no repo name"
    ELSE ""

\* Lines 359-364: the OWNER/REPO the PR is opened against
TargetSlug(slug, args) ==
    IF args.create_pr /\ args.pr_org THEN "org/r" ELSE slug

\* One command or call process_repo made: what, on what, from which line, how
\* it ended ("ok" | "failed", or "ignored" where process_repo goes on the same
\* way whether or not the command failed), and a detail (the options of the
\* push, the branch a new branch starts from)
Op(op, arg, line, res, aux) ==
    [op |-> op, arg |-> arg, line |-> line, res |-> res, aux |-> aux]

Res(ok) == IF ok THEN "ok" ELSE "failed"

\* Lines 389-394 creating the branch whether or not it exists
BranchCommand_always_create(exists) == "checkout -b"

\* Lines 389-394: git checkout of an existing branch, git checkout -b otherwise
BranchCommand(exists) == IF exists THEN "checkout" ELSE "checkout -b"

\* Line 419 with --create-pr forgotten
ShouldPush_only_push(args) == args.push

\* Line 419: if push or create_pr
ShouldPush(args) == args.push \/ args.create_pr

\* Lines 423-425 without the return: the run goes on after a failed push
AfterPush_goes_on(ok) == "pr"

\* Lines 421-425: after the push, on to the PR, or out by return None
AfterPush(ok) == IF ok THEN "pr" ELSE "finally"

\* git_push_u, lines 156-161: the options of the push
PushOptions(force) == IF force THEN "--force-with-lease -u" ELSE "-u"

\* The try statement of lines 386-445 with an except clause for the switch
\* back: an exception leaves without it
AfterTry_no_switch_back(raising) == IF raising THEN "raised" ELSE "finally"

\* Lines 439-445: every way out of the try block runs the finally clause
AfterTry(raising) == "finally"

\* The text of an env file of a release
Content(name) ==
    LET parsed == parse_env_filename(PathOf("env_dir", name))
    IN  <<"v", "=">> \o (IF IsNone(parsed) THEN << >> ELSE Get(parsed).release)

\* ------------------------------------------------------------ get-tags.py
DevStr == <<"d", "e", "v">>

\* [tag for tag in tags if 'dev' in tag]
dev_tags(tags) == SelectSeq(tags, LAMBDA tag : Contains(tag, DevStr))

\* [tag for tag in tags if 'dev' not in tag]
stable_tags(tags) == SelectSeq(tags, LAMBDA tag : ~Contains(tag, DevStr))

\* get_latest_dev_and_stable: <<latest_dev_tag, latest_stable_tag>>
get_latest_dev_and_stable(tags) ==
    <<IF Len(dev_tags(tags)) > 0 THEN Some(dev_tags(tags)[1]) ELSE None,
      IF Len(stable_tags(tags)) > 0 THEN Some(stable_tags(tags)[1]) ELSE None>>

\* get_previous_dev_and_stable taking the last tag of a kind, not the second
get_previous_takes_last(tags) ==
    <<IF Len(dev_tags(tags)) > 1
         THEN Some(dev_tags(tags)[Len(dev_tags(tags))]) ELSE None,
      IF Len(stable_tags(tags)) > 1
         THEN Some(stable_tags(tags)[Len(stable_tags(tags))]) ELSE None>>

\* get_previous_dev_and_stable: <<previous_dev_tag, previous_stable_tag>>
get_previous_dev_and_stable(tags) ==
    <<IF Len(dev_tags(tags)) > 1 THEN Some(dev_tags(tags)[2]) ELSE None,
      IF Len(stable_tags(tags)) > 1 THEN Some(stable_tags(tags)[2]) ELSE None>>

\* `if tag:` for an Optional[str]: neither None nor the empty string
Truthy(o) == ~IsNone(o) /\ Len(Get(o)) > 0

\* The lines the with-block of get-tags.py appends to the GITHUB_ENV file
EnvLines(latest, previous) ==
    (IF Truthy(latest[1]) THEN <<[key |-> "LATEST_DEV_TAG", val |-> Get(latest[1])]>>
     ELSE << >>)
    \o (IF Truthy(latest[2]) THEN <<[key |-> "LATEST_STABLE_TAG", val |-> Get(latest[2])]>>
        ELSE << >>)
    \o (IF Truthy(previous[1]) THEN <<[key |-> "PREVIOUS_DEV_TAG", val |-> Get(previous[1])]>>
        ELSE << >>)
    \o (IF Truthy(previous[2])
        THEN <<[key |-> "PREVIOUS_STABLE_TAG", val |-> Get(previous[2])]>>
        ELSE << >>)

\* -------------------------------------------------------- get-dependencies.py
Space == <<" ">>
LBraces == <<"{", "{">>
OpChars == {"=", "<", ">"}

\* The default process_placeholder returns (line 103)
DefaultVersion == <<">", "=", "0", ".", "0", ".", "0">>

\* The greatest e >= i - 1 such that s[i..e] lies in the character class C
RECURSIVE RunEnd(_, _, _)
RunEnd(s, i, C) ==
    IF i <= Len(s) /\ s[i] \in C THEN RunEnd(s, i + 1, C) ELSE i - 1

\* The least j >= i with s[j] = "}", 0 when there is none
FirstClose(s, i) ==
    LET hits == {j \in i..Len(s) : s[j] = "}"}
    IN  IF hits = {} THEN 0 ELSE CHOOSE j \in hits : \A k \in hits : j <= k

\* s.strip() for blanks
RECURSIVE Strip(_)
Strip(s) ==
    IF Len(s) = 0 THEN s
    ELSE IF s[1] = " " THEN Strip(Tail(s))
    ELSE IF s[Len(s)] = " " THEN Strip(SubSeq(s, 1, Len(s) - 1))
    ELSE s

\* s.startswith(t)
StartsWith(s, t) == OccursAt(s, t, 1)

\* A dependency of the seed environment: a string, or a nested entry (a
\* mapping such as the pip section)
SeedEntry(text) == [str |-> TRUE, text |-> text]
NestedEntry == [str |-> FALSE, text |-> << >>]

\* fetch_seed_environment, lines 34-47: the loop over seed_env['dependencies']
\* from entry k on, acc the dictionary so far; parts[1] raises IndexError for
\* an entry without "="
RECURSIVE SeedLoop(_, _, _)
SeedLoop(deps, k, acc) ==
    IF k > Len(deps) THEN [raised |-> "", value |-> acc]
    ELSE IF ~deps[k].str THEN SeedLoop(deps, k + 1, acc)
    ELSE LET parts == Split(deps[k].text, <<"=">>)
         IN  IF Len(parts) < 2 THEN [raised |-> "IndexError", value |-> acc]
             ELSE SeedLoop(deps, k + 1,
                           [n \in DOMAIN acc \cup {parts[1]} |->
                               IF n = parts[1] THEN parts[2] ELSE acc[n]])

\* fetch_seed_environment on what requests.get and yaml.safe_load give:
\* resp.kind is "request_error" (RequestException), "yaml_error" (YAMLError),
\* "not_mapping" (the document is no mapping: .get raises AttributeError),
\* "no_deps" (a mapping without 'dependencies') or "deps"
fetch_seed_environment(resp) ==
    IF resp.kind \in {"request_error", "yaml_error"} THEN [raised |-> "", value |-> << >>]
    ELSE IF resp.kind = "not_mapping" THEN [raised |-> "AttributeError", value |-> << >>]
    ELSE IF resp.kind = "no_deps" THEN [raised |-> "", value |-> << >>]
    ELSE SeedLoop(resp.deps, 1, << >>)

\* re.sub(r'{{[^}]+}}', ...), line 79: the end of the match that starts at i,
\* 0 when none starts there
JinjaEnd(s, i) ==
    IF ~OccursAt(s, LBraces, i) THEN 0
    ELSE LET j == FirstClose(s, i + 2)
         IN  IF j >= i + 3 /\ j < Len(s) /\ s[j + 1] = "}" THEN j + 1 ELSE 0

\* The stand-in for the n-th Jinja expression: one symbol for
\* __JINJA_PLACEHOLDER_<uuid4 hex>__
JinjaTokens == <<"J1", "J2", "J3", "J4">>

JinjaToken(n) == JinjaTokens[n]

\* preprocess_yaml_with_jinja on one scalar, from position i, n expressions
\* replaced before: <<processed_content, placeholders_map>>
RECURSIVE PreprocessFrom(_, _, _)
PreprocessFrom(s, i, n) ==
    IF i > Len(s) THEN [text |-> << >>, map |-> << >>]
    ELSE LET e == JinjaEnd(s, i)
         IN  IF e = 0
             THEN LET r == PreprocessFrom(s, i + 1, n)
                  IN  [text |-> <<s[i]>> \o r.text, map |-> r.map]
             ELSE LET r == PreprocessFrom(s, e + 1, n + 1)
                  IN  [text |-> <<JinjaToken(n + 1)>> \o r.text,
                       map |-> <<SubSeq(s, i, e)>> \o r.map]

preprocess_yaml_with_jinja(content) == PreprocessFrom(content, 1, 0)

\* restore_jinja_expressions on a string, lines 151-155
restore_jinja_expressions(obj, placeholders_map) ==
    [k \in 1..Len(obj) |->
        IF \E n \in 1..Len(placeholders_map) : obj[k] = JinjaToken(n)
        THEN placeholders_map[CHOOSE n \in 1..Len(placeholders_map) : obj[k] = JinjaToken(n)]
        ELSE <<obj[k]>>]

\* The concatenation of a sequence of strings
RECURSIVE Concat(_)
Concat(ss) == IF Len(ss) = 0 THEN << >> ELSE Head(ss) \o Concat(Tail(ss))

\* Lines 144-163 on a run dependency as the recipe writes it: the string main
\* goes on with
RecipeString(content) ==
    LET r == preprocess_yaml_with_jinja(content)
    IN  Concat(restore_jinja_expressions(r.text, r.map))

\* re.findall(r'{{ ([^}]+) }}', dep), line 172: the end of the match that
\* starts at i, 0 when none starts there
PlaceholderEnd(dep, i) ==
    IF ~OccursAt(dep, LBraces \o Space, i) THEN 0
    ELSE LET j == FirstClose(dep, i + 3)
         IN  IF j >= i + 5 /\ dep[j - 1] = " " /\ j < Len(dep) /\ dep[j + 1] = "}"
             THEN j + 1 ELSE 0

RECURSIVE FindPlaceholders(_, _)
FindPlaceholders(dep, i) ==
    IF i > Len(dep) THEN << >>
    ELSE LET e == PlaceholderEnd(dep, i)
         IN  IF e = 0 THEN FindPlaceholders(dep, i + 1)
             ELSE <<SubSeq(dep, i + 3, e - 3)>> \o FindPlaceholders(dep, e + 1)

\* The text "{{ <placeholder> }}"
JinjaExpr(placeholder) == LBraces \o Space \o placeholder \o Space \o <<"}", "}">>

\* r'([=<>]+)\s*{{ <placeholder> }}' matched at i: the end of the match, 0
\* when none starts there
OperatorMatchEnd(dep, placeholder, i) ==
    IF i > Len(dep) \/ dep[i] \notin OpChars THEN 0
    ELSE LET w == RunEnd(dep, RunEnd(dep, i, OpChars) + 1, {" "})
         IN  IF OccursAt(dep, JinjaExpr(placeholder), w + 1)
             THEN w + Len(JinjaExpr(placeholder)) ELSE 0

\* re.search of that pattern, line 176: where the leftmost match starts, 0
\* when there is none
OperatorSearch(dep, placeholder) ==
    LET hits == {i \in 1..Len(dep) : OperatorMatchEnd(dep, placeholder, i) # 0}
    IN  IF hits = {} THEN 0 ELSE CHOOSE i \in hits : \A j \in hits : i <= j

\* re.sub of the pattern with an operator (line 180): every match from i on is
\* replaced by repl
RECURSIVE SubOperator(_, _, _, _)
SubOperator(dep, placeholder, repl, i) ==
    IF i > Len(dep) THEN << >>
    ELSE LET e == OperatorMatchEnd(dep, placeholder, i)
         IN  IF e = 0 THEN <<dep[i]>> \o SubOperator(dep, placeholder, repl, i + 1)
             ELSE repl \o SubOperator(dep, placeholder, repl, e + 1)

\* process_placeholder, lines 84-103
process_placeholder(placeholder, seed_dependencies) ==
    LET package_name == StrReplace(placeholder, <<"_">>, <<"-">>)
    IN  IF package_name \in DOMAIN seed_dependencies
           /\ Len(seed_dependencies[package_name]) > 0
        THEN seed_dependencies[package_name]
        ELSE DefaultVersion

\* Lines 174-183 for one placeholder of dep
ResolveOne(dep, placeholder, seed_dependencies) ==
    LET version == process_placeholder(placeholder, seed_dependencies)
        m == OperatorSearch(dep, placeholder)
    IN  IF m # 0
        THEN SubOperator(dep, placeholder,
                         SubSeq(dep, m, RunEnd(dep, m, OpChars)) \o version, 1)
        ELSE StrReplace(dep, Space \o JinjaExpr(placeholder), <<">", "=">> \o version)

\* Lines 173-183: the loop over the placeholders found in dep
RECURSIVE ResolveAll(_, _, _)
ResolveAll(dep, placeholders, seed_dependencies) ==
    IF Len(placeholders) = 0 THEN dep
    ELSE ResolveAll(ResolveOne(dep, Head(placeholders), seed_dependencies),
                    Tail(placeholders), seed_dependencies)

\* Lines 172-183: the dependency appended to `dependencies`
ResolveDep(dep, seed_dependencies) ==
    ResolveAll(dep, FindPlaceholders(dep, 1), seed_dependencies)

\* dep.strip().split()[0], lines 188-189: the first blank-separated word
FirstWord(dep) ==
    LET t == Strip(dep)
        i == Find(t, Space, 1)
    IN  IF i = 0 THEN t ELSE SubSeq(t, 1, i - 1)

\* re.match(r'^(q2|qiime2)', word), line 188
IsQiimeName(word) ==
    StartsWith(word, <<"q", "2">>) \/ StartsWith(word, <<"q", "i", "i", "m", "e", "2">>)

\* Lines 216-221: the form in which a dependency is written to environment.yml
Written(dep) ==
    LET t == Strip(dep)
    IN  IF StartsWith(t, <<"-">>) THEN Strip(Tail(t)) ELSE t

Q2cli == <<"q", "2", "c", "l", "i">>

\* Lines 197-221: `dependencies` with q2cli added when no entry mentions it,
\* each in its written form
WrittenDependencies(dependencies) ==
    LET all == IF \E k \in 1..Len(dependencies) : Contains(dependencies[k], Q2cli)
               THEN dependencies
               ELSE Append(dependencies, <<" ", " ", "-", " ">> \o Q2cli)
    IN  [k \in 1..Len(all) |-> Written(all[k])]

\* Lines 233-239: the URLs of the repositories named like a QIIME 2 dependency
RECURSIVE RepoUrls(_, _)
RepoUrls(qiime_dependencies, repositories) ==
    IF Len(qiime_dependencies) = 0 THEN << >>
    ELSE LET hit == SelectSeq(repositories,
                        LAMBDA r : Len(Head(qiime_dependencies)) > 0
                                   /\ r.name = Head(qiime_dependencies) /\ r.url # "")
         IN  [k \in 1..Len(hit) |-> <<"git+", hit[k].url, ".git">>] \o RepoUrls(Tail(qiime_dependencies), repositories)

\* ---------------------------------------------------- update-milestones.py
\* The payload create_or_edit_milestone builds first (lines 62-67)
InitialPayload(args) ==
    {<<"title", args.name>>}
    \cup (IF args.due # "" THEN {<<"due_on", args.due>>} ELSE {})
    \cup (IF args.desc # "" THEN {<<"description", args.desc>>} ELSE {})

\* The payload it builds for an existing milestone (lines 85-90)
PatchPayload(args) ==
    (IF args.edit /\ args.due # "" THEN {<<"due_on", args.due>>} ELSE {})
    \cup (IF args.edit /\ args.desc # "" THEN {<<"description", args.desc>>} ELSE {})
    \cup (IF args.close THEN {<<"state", "closed">>} ELSE {})

\* The dry-run test of line 96 ignored
SendsRequest_always(args) == TRUE

\* Line 96: the request is sent only when --dry-run is not given
SendsRequest(args) == ~args.dry_run

\* Line 100: the method of the request
RequestMethod(args) == IF args.edit \/ args.close THEN "PATCH" ELSE "POST"

\* main, lines 130-136: strptime/strftime of --due; "" when the date is refused
ReformatDue(due) ==
    IF due = "20250630123000" THEN "2025-06-30T12:30:00Z" ELSE ""

\* create_or_edit_milestone(repo, args) with GITHUB_TOKEN set or not, the
\* answer `resp` of the GET ("found" | "absent" | "not_a_list") and the outcome
\* rok of the POST/PATCH: the requests and log lines it adds, and whether it
\* raised
create_or_edit_milestone(repo, args, token, resp, rok) ==
    LET lookup == args.edit \/ args.close
        get == [method |-> "GET", repo |-> repo, number |-> 0, payload |-> {}]
        number == IF lookup THEN 7 ELSE 0
        payload == IF lookup THEN PatchPayload(args) ELSE InitialPayload(args)
    IN  IF lookup /\ ~token
        THEN [http |-> << >>, log |-> << >>, raised |-> TRUE]
        ELSE IF lookup /\ resp = "not_a_list"
        THEN [http |-> <<get>>, log |-> << >>, raised |-> TRUE]
        ELSE IF lookup /\ resp = "absent"
        THEN [http |-> <<get>>,
              log |-> <<[kind |-> "not found", repo |-> repo, number |-> 0, payload |-> {}]>>,
              raised |-> FALSE]
        ELSE
        LET before == IF lookup THEN <<get>> ELSE << >>
        IN  IF ~SendsRequest(args)
            THEN [http |-> before,
                  log |-> <<[kind |-> "DRY RUN", repo |-> repo, number |-> number,
                             payload |-> payload]>>,
                  raised |-> FALSE]
            ELSE IF ~token
            THEN [http |-> before, log |-> << >>, raised |-> TRUE]
            ELSE [http |-> before \o <<[method |-> RequestMethod(args), repo |-> repo,
                                        number |-> number, payload |-> payload]>>,
                  log |-> <<[kind |-> IF rok THEN "Success" ELSE "Failed", repo |-> repo,
                             number |-> number, payload |-> {}]>>,
                  raised |-> FALSE]

\* All orders in which a set of names may be listed
Listings(S) ==
    {s \in [1..Cardinality(S) -> S] : \A i, j \in 1..Cardinality(S) : s[i] = s[j] => i = j}

\* ------------------------------------------------------------------ state
VARIABLES
    sel_dir,        \* select_latest_envs: the file names in env_dir
    sel_listing,    \* the order in which find_env_files yielded them
    sel_result,     \* the returned list
    sel_pc,         \* "idle" | "start" | "done"
    w_fs,           \* write_new_env_file: the file system, path -> text
    w_latest,       \* its argument latest (an EnvFileInfo)
    w_new_release,  \* its argument new_release
    w_out,          \* what the call did (see write_new_env_file)
    w_pc,           \* "idle" | "start" | "done"
    t_api,          \* get-tags.py: the tag names the hosting API holds, in its order
    t_env_set,      \* whether GITHUB_ENV is set
    t_tags,         \* tags, once fetched
    t_latest,       \* <<latest_dev_tag, latest_stable_tag>>
    t_previous,     \* <<previous_dev_tag, previous_stable_tag>>
    t_env_file,     \* the lines of the GITHUB_ENV file
    t_stdout,       \* the printed lines
    t_pc,           \* "idle" | "start" | "fetched" | "done" | "raised"
    m_args,         \* update-milestones.py: the parsed arguments
    m_token,        \* whether GITHUB_TOKEN is set
    m_repos,        \* args.repos.split(",")
    m_i,            \* the index in m_repos of the repository handled next
    m_http,         \* the requests sent so far
    m_log,          \* the logger's info, warning and error lines
    m_pc,           \* "idle" | "start" | "loop" | "done" | "raised"
    args,           \* update-env-files.py: new_release, push, create_pr, force_push, pr_org
    n_repos,        \* how many repositories the command line names
    i_repo,         \* main's loop: the repository handled next
    pr_links,       \* main's pr_links
    calls,          \* the repositories process_repo was called for, in order
    pc,             \* where main / process_repo stands
    fs,             \* the working tree's environment-files/: path -> text
    latest_envs,    \* process_repo's latest_envs
    planned_latest, \* its planned_latest
    already_existing, \* its already_existing
    w_idx,          \* the index in planned_latest of the file written next
    new_env_paths,  \* its new_env_paths
    branch_exists,  \* whether the repository has the branch env-file-<new_release>
    head,           \* the branch checked out: "other" | "base" | "feature"
    pr_url,         \* its pr_url
    raising,        \* an exception is propagating out of process_repo
    skip,           \* why it returned before touching the repository, or ""
    oplog,          \* the commands and calls of this run of process_repo
    d_resp,         \* get-dependencies.py: what fetching and parsing the seed environment gives
    d_recipe,       \* the recipe: whether it has requirements.run, and its entries
    d_seed,         \* seed_dependencies
    d_i,            \* the index in run_deps of the dependency handled next
    d_deps,         \* dependencies
    d_qiime,        \* qiime_dependencies
    d_out,          \* the 'dependencies' written to environment.yml
    d_urls,         \* the lines written to repo-urls.txt
    d_exc,          \* the exception that ended the run, "" when none
    d_pc            \* "idle" | "start" | "recipe" | "done" | "raised"

selVars == <<sel_dir, sel_listing, sel_result, sel_pc>>
writeVars == <<w_fs, w_latest, w_new_release, w_out, w_pc>>
tagVars == <<t_api, t_env_set, t_tags, t_latest, t_previous, t_env_file, t_stdout, t_pc>>
msVars == <<m_args, m_token, m_repos, m_i, m_http, m_log, m_pc>>

mainVars == <<args, n_repos, i_repo, pr_links, calls, pc>>
runVars == <<fs, latest_envs, planned_latest, already_existing, w_idx, new_env_paths,
             branch_exists, head, pr_url, raising, skip, oplog>>
envVars == <<mainVars, runVars>>

depVars == <<d_resp, d_recipe, d_seed, d_i, d_deps, d_qiime, d_out, d_urls, d_exc, d_pc>>

vars == <<selVars, writeVars, tagVars, msVars, depVars, envVars>>

DepIdle ==
    /\ d_resp = << >>
    /\ d_recipe = << >>
    /\ d_seed = << >>
    /\ d_i = 0
    /\ d_deps = << >>
    /\ d_qiime = << >>
    /\ d_out = << >>
    /\ d_urls = << >>
    /\ d_exc = ""
    /\ d_pc = "idle"

SelIdle ==
    /\ sel_dir = {}
    /\ sel_listing = << >>
    /\ sel_result = << >>
    /\ sel_pc = "idle"

WriteIdle ==
    /\ w_fs = << >>
    /\ w_latest = << >>
    /\ w_new_release = << >>
    /\ w_out = << >>
    /\ w_pc = "idle"

TagIdle ==
    /\ t_api = << >>
    /\ t_env_set = FALSE
    /\ t_tags = << >>
    /\ t_latest = << >>
    /\ t_previous = << >>
    /\ t_env_file = << >>
    /\ t_stdout = << >>
    /\ t_pc = "idle"

RunIdle ==
    /\ fs = << >>
    /\ latest_envs = << >>
    /\ planned_latest = << >>
    /\ already_existing = << >>
    /\ w_idx = 0
    /\ new_env_paths = << >>
    /\ branch_exists = FALSE
    /\ head = "other"
    /\ pr_url = None
    /\ raising = FALSE
    /\ skip = ""
    /\ oplog = << >>

EnvIdle ==
    /\ args = << >>
    /\ n_repos = 0
    /\ i_repo = 0
    /\ pr_links = << >>
    /\ calls = << >>
    /\ pc = "idle"
    /\ RunIdle

MsIdle ==
    /\ m_args = << >>
    /\ m_token = FALSE
    /\ m_repos = << >>
    /\ m_i = 0
    /\ m_http = << >>
    /\ m_log = << >>
    /\ m_pc = "idle"

\* --------------------------------------------- select_latest_envs, checked
\* File names a directory is drawn from, each with the reading its author
\* intends: ok (a well-formed env file name), plugin, distribution and the
\* release as a pair of numbers.
R_1_9 == <<"1", ".", "9">>
R_1_10 == <<"1", ".", "1", "0">>
R_1_010 == <<"1", ".", "0", "1", "0">>
R_1_11 == <<"1", ".", "1", "1">>
R_2_0 == <<"2", ".", "0">>
PlugA == <<"a">>
PlugB == <<"b">>

Entry(plugin, dist, rel, maj, min) ==
    [name |-> EnvFileName(plugin, dist, rel), ok |-> TRUE,
     plugin |-> plugin, dist |-> dist, rel |-> <<maj, min>>]

BadEntry(name) ==
    [name |-> name, ok |-> FALSE, plugin |-> << >>, dist |-> << >>, rel |-> <<0, 0>>]

NameUniverse ==
    { Entry(PlugA, Tiny, R_1_9, 1, 9),
      Entry(PlugA, Tiny, R_1_10, 1, 10),
      Entry(PlugA, Moshpit, R_1_10, 1, 10),
      Entry(PlugA, Metagenome, R_1_10, 1, 10),
      Entry(PlugB, Metagenome, R_1_10, 1, 10),
      Entry(PlugA, Metagenome, R_1_010, 1, 10),
      Entry(PlugA, Moshpit, R_1_9, 1, 9),
      \* release with a letter
      BadEntry(EnvFileName(PlugA, Tiny, <<"1", ".", "x">>)),
      \* "-qiime2-" twice
      BadEntry(PlugA \o Qiime2Sep \o PlugB \o Qiime2Sep \o Tiny \o Dash \o R_2_0
               \o FILENAME_SUFFIX),
      \* a dash inside the distribution
      BadEntry(EnvFileName(PlugA, Tiny \o Dash \o <<"x">>, R_2_0)),
      \* another suffix
      BadEntry(PlugA \o Qiime2Sep \o Tiny \o Dash \o R_2_0 \o <<".", "y", "a", "m", "l">>),
      \* no release part
      BadEntry(PlugA \o Qiime2Sep \o Tiny \o FILENAME_SUFFIX) }

Names == {u.name : u \in NameUniverse}

Reading(n) == CHOOSE u \in NameUniverse : u.name = n

InitSelect ==
    /\ sel_dir \in {d \in SUBSET Names : Cardinality(d) <= MaxFiles}
    /\ sel_listing = << >>
    /\ sel_result = << >>
    /\ sel_pc = "start"
    /\ WriteIdle /\ TagIdle /\ MsIdle /\ DepIdle /\ EnvIdle

SelectLatest ==
    /\ sel_pc = "start"
    /\ \E listing \in Listings(find_env_files("env_dir", sel_dir)) :
          /\ sel_listing' = listing
          /\ sel_result' = select_latest_envs(listing)
    /\ sel_pc' = "done"
    /\ UNCHANGED <<sel_dir, writeVars, tagVars, msVars, depVars, envVars>>

NextSelect == SelectLatest

SpecSelect == InitSelect /\ [][NextSelect]_vars

\* What the directory holds, read as its author intends
OkEntries == {Reading(n) : n \in {m \in sel_dir : Reading(m).ok}}

RelNewer(r1, r2) == r1[1] > r2[1] \/ (r1[1] = r2[1] /\ r1[2] > r2[2])

\* The well-formed entries of the most recent release, compared as numbers
NewestEntries == {u \in OkEntries : \A v \in OkEntries : ~RelNewer(v.rel, u.rel)}

ResultPaths == {sel_result[i].path.name : i \in 1..Len(sel_result)}

ResultPairs ==
    {<<sel_result[i].plugin_name, sel_result[i].distribution>> : i \in 1..Len(sel_result)}

\* C4 as stated: the result is exactly the well-formed files of the most recent
\* release (every one of them, and nothing else), and it is empty only when no
\* name is well-formed.
C4_AsStated ==
    sel_pc = "done" =>
        /\ ResultPaths = {u.name : u \in NewestEntries}
        /\ (sel_result = << >> => OkEntries = {})

\* C4 (amended): select_latest_envs returns only well-formed env files of the
\* most recent release, releases compared as pairs of integers (1.10 is newer
\* than 1.9); it returns one file for every (plugin, distribution) pair that has
\* such a file, except a metagenome pair whose plugin also has a moshpit file of
\* that release, and never two files of one pair; the result is empty exactly
\* when no file name is well-formed.
C4_SelectLatest ==
    sel_pc = "done" =>
        /\ ResultPaths \subseteq {u.name : u \in NewestEntries}
        /\ \A u \in NewestEntries :
              \/ <<u.plugin, u.dist>> \in ResultPairs
              \/ /\ u.dist = Metagenome
                 /\ \E v \in NewestEntries : v.plugin = u.plugin /\ v.dist = Moshpit
        /\ \A i, j \in 1..Len(sel_result) :
              (/\ sel_result[i].plugin_name = sel_result[j].plugin_name
               /\ sel_result[i].distribution = sel_result[j].distribution) => i = j
        /\ (sel_result = << >> <=> OkEntries = {})

\* C4 witness: an older 1.9 file and a 1.10 file were listed, and the 1.10 one
\* was returned alone.
C4_Witness ==
    /\ sel_pc = "done"
    /\ EnvFileName(PlugA, Tiny, R_1_9) \in sel_dir
    /\ EnvFileName(PlugA, Tiny, R_1_10) \in sel_dir
    /\ ResultPaths = {EnvFileName(PlugA, Tiny, R_1_10)}

\* C5: when a plugin has both a moshpit and a metagenome file at the most
\* recent release, the moshpit one is returned and the metagenome one is not;
\* a metagenome file is returned when its plugin has no moshpit file at that
\* release; files of every other distribution are never dropped.
C5_MoshpitPreferred ==
    sel_pc = "done" =>
        \A u \in NewestEntries :
            LET hasMoshpit ==
                    \E v \in NewestEntries : v.plugin = u.plugin /\ v.dist = Moshpit
            IN  /\ (u.dist = Metagenome /\ hasMoshpit) =>
                      /\ <<u.plugin, Moshpit>> \in ResultPairs
                      /\ <<u.plugin, Metagenome>> \notin ResultPairs
                      /\ u.name \notin ResultPaths
                /\ (u.dist = Metagenome /\ ~hasMoshpit) =>
                      <<u.plugin, Metagenome>> \in ResultPairs
                /\ u.dist # Metagenome => <<u.plugin, u.dist>> \in ResultPairs

\* C5 witness: plugin a has moshpit and metagenome at 1.10, plugin b has only
\* metagenome; a's moshpit and b's metagenome were returned.
C5_Witness ==
    /\ sel_pc = "done"
    /\ sel_dir = {EnvFileName(PlugA, Moshpit, R_1_10),
                  EnvFileName(PlugA, Metagenome, R_1_10),
                  EnvFileName(PlugB, Metagenome, R_1_10)}
    /\ ResultPaths = {EnvFileName(PlugA, Moshpit, R_1_10),
                      EnvFileName(PlugB, Metagenome, R_1_10)}

\* --------------------------------------------- write_new_env_file, checked
WAlphabet == {"1", ".", "2"}

Texts == UNION {[1..n -> WAlphabet] : n \in 0..MaxText}

R_1_1 == <<"1", ".", "1">>
R_2_1 == <<"2", ".", "1">>

\* (old release, new release) pairs
ReleasePairs == {<<R_1_1, R_2_1>>, <<R_1_1, R_1_10>>, <<R_2_1, R_1_10>>, <<R_2_1, R_2_1>>}

InitWrite ==
    /\ \E rp \in ReleasePairs, text \in Texts,
          extra \in {{}, {"env_dir"}, {"elsewhere"}} :
          LET latest == Get(parse_env_filename(
                                PathOf("env_dir", EnvFileName(PlugA, Tiny, rp[1]))))
              others == {PathOf(d, EnvFileName(PlugA, Tiny, rp[2])) : d \in extra}
          IN  /\ w_latest = latest
              /\ w_new_release = rp[2]
              /\ w_fs = [q \in {latest.path} \cup others |->
                            IF q = latest.path THEN text ELSE << >>]
    /\ w_out = << >>
    /\ w_pc = "start"
    /\ SelIdle /\ TagIdle /\ MsIdle /\ DepIdle /\ EnvIdle

WriteNewEnvFile ==
    /\ w_pc = "start"
    /\ w_out' = write_new_env_file(w_fs, w_latest, w_new_release)
    /\ w_pc' = "done"
    /\ UNCHANGED <<w_fs, w_latest, w_new_release, selVars, tagVars, msVars, depVars, envVars>>

NextWrite == WriteNewEnvFile

SpecWrite == InitWrite /\ [][NextWrite]_vars

\* Where old occurs in text
Occs(text, old) == {i \in 1..Len(text) : OccursAt(text, old, i)}

\* text with the occurrences of an old token of length L that start at the
\* positions P replaced by new, from position `from` on; each character comes
\* with a mark: TRUE when it belongs to an inserted new token
RECURSIVE Subst(_, _, _, _, _)
Subst(text, P, L, new, from) ==
    IF from > Len(text) THEN << >>
    ELSE IF from \in P
    THEN [k \in 1..Len(new) |-> <<new[k], TRUE>>] \o Subst(text, P, L, new, from + L)
    ELSE <<<<text[from], FALSE>>>> \o Subst(text, P, L, new, from + 1)

WDest == PathOf(w_latest.path.parent,
                w_latest.plugin_name \o Qiime2Sep \o w_latest.distribution \o Dash
                \o w_new_release \o FILENAME_SUFFIX)

WWritten == w_pc = "done" /\ w_out.exc = "none"

\* The file is created under the expected name beside the latest file, parses
\* back to the same plugin and distribution with the new release, and no other
\* file changes
WCreated ==
    /\ w_out.path = Some(WDest)
    /\ parse_env_filename(WDest) =
          Some([path |-> WDest, plugin_name |-> w_latest.plugin_name,
                distribution |-> w_latest.distribution, release |-> w_new_release])
    /\ DOMAIN w_out.fs = DOMAIN w_fs \cup {WDest}
    /\ \A q \in DOMAIN w_fs : w_out.fs[q] = w_fs[q]

\* C6 as stated: the new content holds the old token only if the new token
\* itself contains it.
C6_AsStated ==
    WWritten =>
        /\ WCreated
        /\ Contains(w_out.fs[WDest], w_latest.release)
              => Contains(w_new_release, w_latest.release)

\* C6 (amended): when the destination does not exist, write_new_env_file
\* creates <plugin>-qiime2-<distribution>-<new_release>.yml beside the latest
\* file and changes no other file; its content is the latest file's text with
\* non-overlapping occurrences of the old token replaced by the new token, every
\* occurrence of the old token being replaced or overlapped by a replaced one,
\* and nothing else changed; an occurrence of the old token in the new content
\* always overlaps an inserted new token. When the destination exists nothing
\* is written.
C6_WriteNewEnvFile ==
    /\ WWritten <=> (w_pc = "done" /\ WDest \notin DOMAIN w_fs)
    /\ (w_pc = "done" /\ ~WWritten) => w_out.fs = w_fs /\ w_out.path = None
    /\ WWritten =>
        /\ WCreated
        /\ LET text == w_fs[w_latest.path]
               old == w_latest.release
               updated == w_out.fs[WDest]
           IN  \E P \in SUBSET Occs(text, old) :
                  LET marked == Subst(text, P, Len(old), w_new_release, 1)
                  IN  /\ \A i, j \in P : i < j => i + Len(old) <= j
                      /\ \A i \in Occs(text, old) :
                            \E j \in P : i - j < Len(old) /\ j - i < Len(old)
                      /\ updated = [k \in 1..Len(marked) |-> marked[k][1]]
                      /\ \A i \in Occs(updated, old) :
                            \E k \in i..(i + Len(old) - 1) : marked[k][2]

\* C6 witness: a text holding the old token twice was rewritten.
C6_Witness ==
    /\ WWritten
    /\ Cardinality(Occs(w_fs[w_latest.path], w_latest.release)) >= 2
    /\ Len(w_fs[w_latest.path]) >= 2 * Len(w_latest.release)
    /\ ~Contains(w_out.fs[WDest], w_latest.release)

\* ------------------------------------------------------ get-tags.py, checked
TagUniverse ==
    { <<"1">>, <<"2">>, <<"1", "d", "e", "v">>, <<"d", "e", "v", "2">>, <<"d", "e", "1", "v">> }

TagLists == UNION {[1..n -> TagUniverse] : n \in 0..MaxTags}

PriorLine == [key |-> "PRIOR", val |-> <<"x">>]

InitTags ==
    /\ t_api \in TagLists
    /\ t_env_set \in BOOLEAN
    /\ t_tags = << >>
    /\ t_latest = << >>
    /\ t_previous = << >>
    /\ t_env_file \in {<< >>, <<PriorLine>>}
    /\ t_stdout = << >>
    /\ t_pc = "start"
    /\ SelIdle /\ WriteIdle /\ MsIdle /\ DepIdle /\ EnvIdle

\* get_latest_tags (lines 6-11): the API answers, or raise_for_status raises
GetLatestTags ==
    /\ t_pc = "start"
    /\ \/ t_tags' = t_api /\ t_pc' = "fetched"
       \/ t_tags' = t_tags /\ t_pc' = "raised"
    /\ UNCHANGED <<t_api, t_env_set, t_latest, t_previous, t_env_file, t_stdout,
                   selVars, writeVars, msVars, depVars, envVars>>

\* __main__, lines 38-54; open(None) raises when GITHUB_ENV is not set
ReportTags ==
    /\ t_pc = "fetched"
    /\ t_latest' = get_latest_dev_and_stable(t_tags)
    /\ t_previous' = get_previous_dev_and_stable(t_tags)
    /\ IF t_env_set
       THEN /\ t_env_file' = t_env_file \o EnvLines(t_latest', t_previous')
            /\ t_stdout' = <<t_latest'[1], t_latest'[2], t_previous'[1], t_previous'[2]>>
            /\ t_pc' = "done"
       ELSE /\ UNCHANGED <<t_env_file, t_stdout>>
            /\ t_pc' = "raised"
    /\ UNCHANGED <<t_api, t_env_set, t_tags, selVars, writeVars, msVars, depVars, envVars>>

NextTags == GetLatestTags \/ ReportTags

SpecTags == InitTags /\ [][NextTags]_vars

\* The positions of the dev and of the stable tags in the fetched list
DevIdx == {i \in 1..Len(t_tags) : \E k \in 1..Len(t_tags[i]) : OccursAt(t_tags[i], DevStr, k)}
StableIdx == (1..Len(t_tags)) \ DevIdx

\* The n-th tag (n = 1, 2) at the positions S, or None
NthAt(S, n) ==
    LET hits == {i \in S : Cardinality({j \in S : j < i}) = n - 1}
    IN  IF hits = {} THEN None ELSE Some(t_tags[CHOOSE i \in hits : TRUE])

LineFor(key, tag) == IF tag = None THEN << >> ELSE <<[key |-> key, val |-> Get(tag)]>>

\* C10: the latest dev/stable tag is the first tag of the fetched list that
\* contains / does not contain "dev", the previous one is the second such tag,
\* None when there is none; a previous tag comes with a latest tag of its kind
\* and is a later list entry; the GITHUB_ENV file gains one line for each tag
\* that is not None and no other line, and nothing when the run raised.
C10_Tags ==
    /\ t_pc = "done" =>
        /\ t_latest = <<NthAt(DevIdx, 1), NthAt(StableIdx, 1)>>
        /\ t_previous = <<NthAt(DevIdx, 2), NthAt(StableIdx, 2)>>
        /\ \A k \in 1..2 : t_previous[k] # None => t_latest[k] # None
        /\ t_stdout = <<t_latest[1], t_latest[2], t_previous[1], t_previous[2]>>
        /\ \E n \in 0..1 :
              /\ n <= Len(t_env_file)
              /\ \A i \in 1..n : t_env_file[i] = PriorLine
              /\ SubSeq(t_env_file, n + 1, Len(t_env_file)) =
                    LineFor("LATEST_DEV_TAG", t_latest[1])
                    \o LineFor("LATEST_STABLE_TAG", t_latest[2])
                    \o LineFor("PREVIOUS_DEV_TAG", t_previous[1])
                    \o LineFor("PREVIOUS_STABLE_TAG", t_previous[2])
    /\ t_pc = "raised" => \A i \in 1..Len(t_env_file) : t_env_file[i] = PriorLine

\* C10 witness: three dev tags and no stable tag; the first and the second were
\* reported and two lines written.
C10_Witness ==
    /\ t_pc = "done"
    /\ t_tags = <<<<"1", "d", "e", "v">>, <<"d", "e", "v", "2">>, <<"1", "d", "e", "v">>>>
    /\ t_latest = <<Some(<<"1", "d", "e", "v">>), None>>
    /\ t_previous = <<Some(<<"d", "e", "v", "2">>), None>>
    /\ t_env_file = <<[key |-> "LATEST_DEV_TAG", val |-> <<"1", "d", "e", "v">>],
                      [key |-> "PREVIOUS_DEV_TAG", val |-> <<"d", "e", "v", "2">>]>>

\* ---------------------------------------------- update-milestones.py, checked
MsArgs ==
    [name : {"v1"}, due : {"", "20250630123000", "someday"}, desc : {"", "text"},
     edit : BOOLEAN, close : BOOLEAN, dry_run : BOOLEAN]

InitMilestones ==
    /\ m_args \in MsArgs
    /\ m_token \in BOOLEAN
    /\ m_repos \in {[i \in 1..n |-> i] : n \in 1..MaxMsRepos}
    /\ m_i = 0
    /\ m_http = << >>
    /\ m_log = << >>
    /\ m_pc = "start"
    /\ SelIdle /\ WriteIdle /\ TagIdle /\ DepIdle /\ EnvIdle

\* main, lines 122-136: --due is reformatted, or ValueError is raised
MsMain ==
    /\ m_pc = "start"
    /\ IF m_args.due # "" /\ ReformatDue(m_args.due) = ""
       THEN m_pc' = "raised" /\ UNCHANGED <<m_args, m_i>>
       ELSE /\ m_args' = [m_args EXCEPT !.due = ReformatDue(m_args.due)]
            /\ m_i' = 1
            /\ m_pc' = "loop"
    /\ UNCHANGED <<m_token, m_repos, m_http, m_log, selVars, writeVars, tagVars, depVars, envVars>>

\* main, lines 138-139: one call of create_or_edit_milestone
CreateOrEditMilestone ==
    /\ m_pc = "loop"
    /\ m_i <= Len(m_repos)
    /\ \E resp \in {"found", "absent", "not_a_list"}, rok \in BOOLEAN :
          LET r == create_or_edit_milestone(m_repos[m_i], m_args, m_token, resp, rok)
          IN  /\ m_http' = m_http \o r.http
              /\ m_log' = m_log \o r.log
              /\ m_pc' = IF r.raised THEN "raised" ELSE "loop"
              /\ m_i' = IF r.raised THEN m_i ELSE m_i + 1
    /\ UNCHANGED <<m_args, m_token, m_repos, selVars, writeVars, tagVars, depVars, envVars>>

MsFinish ==
    /\ m_pc = "loop"
    /\ m_i > Len(m_repos)
    /\ m_pc' = "done"
    /\ UNCHANGED <<m_args, m_token, m_repos, m_i, m_http, m_log, selVars, writeVars, tagVars, depVars, envVars>>

NextMilestones == MsMain \/ CreateOrEditMilestone \/ MsFinish

SpecMilestones == InitMilestones /\ [][NextMilestones]_vars

\* C9: in dry-run mode no POST and no PATCH is sent, for any repository and any
\* of --edit, --close, --due and --desc; a repository handled to the end leaves
\* a [DRY RUN] line with the URL and the payload, or the "not found" warning,
\* and never a Success or Failed line.
C9_DryRun ==
    m_args.dry_run =>
        /\ \A k \in 1..Len(m_http) : m_http[k].method = "GET"
        /\ \A k \in 1..Len(m_log) : m_log[k].kind \in {"DRY RUN", "not found"}
        /\ m_pc \in {"loop", "done"} =>
              /\ Len(m_log) = m_i - 1
              /\ \A k \in 1..Len(m_log) : m_log[k].repo = m_repos[k]

\* C9 witness: a dry run with --edit and --due came to its end, having fetched
\* the milestones and logged the PATCH it would send.
C9_Witness ==
    /\ m_pc = "done"
    /\ m_args.dry_run /\ m_args.edit /\ ~m_args.close
    /\ Len(m_repos) = 2
    /\ \E k \in 1..Len(m_log) :
          /\ m_log[k].kind = "DRY RUN"
          /\ m_log[k].number = 7
          /\ m_log[k].payload = {<<"due_on", "2025-06-30T12:30:00Z">>}
    /\ \E k \in 1..Len(m_http) : m_http[k].method = "GET"

\* ------------------------------------- update-env-files.py: main, process_repo
\* The env files a repository is drawn from
EnvNames ==
    { EnvFileName(PlugA, Tiny, R_1_10),
      EnvFileName(PlugA, Moshpit, R_1_10),
      EnvFileName(PlugA, Tiny, R_1_9) }

NewReleases == {R_1_11, R_1_9, <<"1", ".", "x">>}

ArgSets ==
    [new_release : NewReleases, push : BOOLEAN, create_pr : BOOLEAN,
     force_push : BOOLEAN, pr_org : BOOLEAN]

Init ==
    /\ args \in ArgSets
    /\ n_repos \in 1..MaxRepos
    /\ i_repo = 0
    /\ pr_links = << >>
    /\ calls = << >>
    /\ pc = "start"
    /\ RunIdle
    /\ SelIdle /\ WriteIdle /\ TagIdle /\ MsIdle /\ DepIdle

notEnv == <<selVars, writeVars, tagVars, msVars, depVars>>

\* main, lines 509-518: --new-release must look like digits.digits
MainStart ==
    /\ pc = "start"
    /\ IF IsReleaseToken(args.new_release)
       THEN pc' = "main" /\ i_repo' = 1
       ELSE pc' = "exited" /\ UNCHANGED i_repo
    /\ UNCHANGED <<args, n_repos, pr_links, calls, runVars, notEnv>>

\* process_repo returns v: every return before line 438 returns None
ReturnToMain(v) ==
    /\ pr_url' = v
    /\ pc' = "returned"
    /\ UNCHANGED <<pr_links, i_repo>>

\* Lines 531-532 putting the new URL in front
AppendPrLink_prepends(links, v) ==
    IF Truthy(v) THEN <<Get(v)>> \o links ELSE links

\* main, lines 531-532: if pr_url: pr_links.append(pr_url)
AppendPrLink(links, v) ==
    IF Truthy(v) THEN Append(links, Get(v)) ELSE links

\* main, lines 521-532: the returned value is appended when it is truthy, and
\* the loop goes on; the locals of process_repo are gone
MainReceive ==
    /\ pc = "returned"
    /\ pr_links' = AppendPrLink(pr_links, pr_url)
    /\ i_repo' = i_repo + 1
    /\ pc' = "main"
    /\ fs' = << >>
    /\ latest_envs' = << >>
    /\ planned_latest' = << >>
    /\ already_existing' = << >>
    /\ w_idx' = 0
    /\ new_env_paths' = << >>
    /\ branch_exists' = FALSE
    /\ head' = "other"
    /\ pr_url' = None
    /\ raising' = FALSE
    /\ skip' = ""
    /\ oplog' = << >>
    /\ UNCHANGED <<args, n_repos, calls, notEnv>>

\* Lines 311-329 on a repository whose environment-files/ holds `names`, listed
\* in the order `listing`: what process_repo finds
FoundIn(names, listing, new_release) ==
    LET fs0 == [q \in {PathOf("env_dir", n) : n \in names} |-> Content(q.name)]
        latest == select_latest_envs(listing)
    IN  [fs |-> fs0,
         latest_envs |-> latest,
         planned_latest |-> PlannedLatest(fs0, latest, new_release),
         already_existing |-> AlreadyExisting(fs0, latest, new_release)]

\* For each valid --new-release, what process_repo can find in a repository
RepoStates ==
    [nr \in {r \in NewReleases : IsReleaseToken(r)} |->
        UNION {{FoundIn(names, listing, nr) :
                    listing \in Listings(find_env_files("env_dir", names))} :
               names \in SUBSET EnvNames}]

\* main, line 522: process_repo is called for the next repository
EnterRun ==
    /\ calls' = Append(calls, i_repo)
    /\ UNCHANGED <<w_idx, new_env_paths, head, raising, oplog>>

\* main, line 522, and process_repo, lines 304-314: the path is no directory,
\* no git repository, or has no environment-files/
CallProcessRepoNoRepo ==
    /\ pc = "main"
    /\ i_repo <= n_repos
    /\ EnterRun
    /\ \E kind \in {"not_dir", "not_git", "no_env_dir"} :
          skip' = SkipReason(kind, << >>, << >>, FALSE, "", args)
    /\ fs' = << >>
    /\ latest_envs' = << >>
    /\ planned_latest' = << >>
    /\ already_existing' = << >>
    /\ branch_exists' = FALSE
    /\ ReturnToMain(None)
    /\ UNCHANGED <<args, n_repos, notEnv>>

\* main, line 522, and process_repo, lines 304-366, for a git repository with
\* environment-files/: the checks made before the repository is touched
CallProcessRepo ==
    /\ pc = "main"
    /\ i_repo <= n_repos
    /\ EnterRun
    /\ \E found \in RepoStates[args.new_release] :
          LET latest == found.latest_envs
              planned == found.planned_latest
          IN  /\ fs' = found.fs
              /\ latest_envs' = latest
              /\ planned_latest' = planned
              /\ already_existing' = found.already_existing
              /\ IF Len(planned) = 0
                 THEN /\ skip' = SkipReason("ok", latest, planned, FALSE, "", args)
                      /\ branch_exists' = FALSE
                      /\ ReturnToMain(None)
                 ELSE \E has_remote \in BOOLEAN, slug \in {"", "o/r", "o/"} :
                         /\ skip' = SkipReason("ok", latest, planned, has_remote, slug, args)
                         /\ IF skip' = ""
                            THEN /\ branch_exists' \in BOOLEAN
                                 /\ pc' = "fetch"
                                 /\ UNCHANGED <<pr_links, i_repo, pr_url>>
                            ELSE /\ branch_exists' = FALSE
                                 /\ ReturnToMain(None)
    /\ UNCHANGED <<args, n_repos, notEnv>>

\* Lines 369-373: git fetch <remote> <base>; whether it fails changes nothing
GitFetch ==
    /\ pc = "fetch"
    /\ oplog' = Append(oplog, Op("fetch", base_branch, 370, "ignored", ""))
    /\ pc' = "checkout_base"
    /\ UNCHANGED <<args, n_repos, i_repo, pr_links, calls, fs, latest_envs, planned_latest,
                   already_existing, w_idx, new_env_paths, branch_exists, head, pr_url,
                   raising, skip, notEnv>>

\* Lines 374-378: git checkout <base>; a failure returns None
CheckoutBase ==
    /\ pc = "checkout_base"
    /\ \/ /\ oplog' = Append(oplog, Op("checkout", base_branch, 375, "ok", ""))
          /\ head' = "base"
          /\ pc' = "pull"
          /\ UNCHANGED <<pr_links, i_repo, pr_url>>
       \/ /\ oplog' = Append(oplog, Op("checkout", base_branch, 375, "failed", ""))
          /\ UNCHANGED head
          /\ ReturnToMain(None)
    /\ UNCHANGED <<args, n_repos, calls, fs, latest_envs, planned_latest, already_existing,
                   w_idx, new_env_paths, branch_exists, raising, skip, notEnv>>

\* Lines 379-383: git pull --ff-only <remote> <base>; whether it fails changes
\* nothing
GitPull ==
    /\ pc = "pull"
    /\ oplog' = Append(oplog, Op("pull", base_branch, 380, "ignored", ""))
    /\ pc' = "branch"
    /\ UNCHANGED <<args, n_repos, i_repo, pr_links, calls, fs, latest_envs, planned_latest,
                   already_existing, w_idx, new_env_paths, branch_exists, head, pr_url,
                   raising, skip, notEnv>>

\* Lines 388-397: git rev-parse --verify <branch>, then git checkout <branch> or
\* git checkout -b <branch>.  The tree of a branch that exists may hold
\* destination files the base branch does not hold.
CheckoutFeatureBranch ==
    /\ pc = "branch"
    /\ LET branch == BranchName(args.new_release)
           probe == Op("rev-parse", branch, 389, Res(branch_exists), "")
           cmd == BranchCommand(branch_exists)
           line == IF cmd = "checkout" THEN 391 ELSE 394
           from == IF cmd = "checkout" THEN "" ELSE head
       IN  \/ /\ oplog' = oplog \o <<probe, Op(cmd, branch, line, "ok", from)>>
              /\ head' = "feature"
              /\ \E extra \in SUBSET {PathOf(planned_latest[k].path.parent,
                                             NewEnvName(planned_latest[k], args.new_release)) :
                                         k \in 1..Len(planned_latest)} :
                    /\ branch_exists \/ extra = {}
                    /\ fs' = [q \in DOMAIN fs \cup extra |->
                                 IF q \in DOMAIN fs THEN fs[q] ELSE Content(q.name)]
              /\ w_idx' = 1
              /\ pc' = "write"
           \/ /\ oplog' = oplog \o <<probe, Op(cmd, branch, line, "failed", from)>>
              /\ pc' = AfterTry(FALSE)
              /\ UNCHANGED <<head, fs, w_idx>>
    /\ UNCHANGED <<args, n_repos, i_repo, pr_links, calls, latest_envs, planned_latest,
                   already_existing, new_env_paths, branch_exists, pr_url, raising, skip,
                   notEnv>>

\* Lines 401-405: one round of the loop over planned_latest.  FileExistsError is
\* caught and the file skipped; any other error of the read or the write
\* propagates.
WriteEnvFile ==
    /\ pc = "write"
    /\ w_idx <= Len(planned_latest)
    /\ LET latest == planned_latest[w_idx]
           r == write_new_env_file(fs, latest, args.new_release)
           dest == PathOf(latest.path.parent, NewEnvName(latest, args.new_release))
       IN  \/ /\ r.exc = "none"
              /\ fs' = r.fs
              /\ new_env_paths' = Append(new_env_paths, Get(r.path))
              /\ oplog' = Append(oplog, Op("write", dest, 403, "ok", ""))
              /\ w_idx' = w_idx + 1
              /\ UNCHANGED <<pc, raising>>
           \/ /\ r.exc = "FileExistsError"
              /\ oplog' = Append(oplog, Op("write", dest, 403, "failed", r.exc))
              /\ w_idx' = w_idx + 1
              /\ UNCHANGED <<pc, raising, fs, new_env_paths>>
           \/ /\ r.exc # "FileExistsError"
              /\ oplog' = Append(oplog, Op("write", dest, 403, "failed", "OSError"))
              /\ raising' = TRUE
              /\ pc' = AfterTry(TRUE)
              /\ UNCHANGED <<w_idx, fs, new_env_paths>>
    /\ UNCHANGED <<args, n_repos, i_repo, pr_links, calls, latest_envs, planned_latest,
                   already_existing, branch_exists, head, pr_url, skip, notEnv>>

\* Lines 407-409: nothing was generated, return None
AfterWrite ==
    /\ pc = "write"
    /\ w_idx > Len(planned_latest)
    /\ pc' = IF Len(new_env_paths) = 0 THEN AfterTry(FALSE) ELSE "commit"
    /\ UNCHANGED <<args, n_repos, i_repo, pr_links, calls, runVars, notEnv>>

\* Lines 411-416 and git_add_and_commit: git add, then git commit
GitAddAndCommit ==
    /\ pc = "commit"
    /\ \/ /\ oplog' = Append(oplog, Op("add", new_env_paths, 258, "failed", ""))
          /\ pc' = AfterTry(FALSE)
       \/ /\ oplog' = oplog \o <<Op("add", new_env_paths, 258, "ok", ""),
                                 Op("commit", args.new_release, 262, "failed", "")>>
          /\ pc' = AfterTry(FALSE)
       \/ /\ oplog' = oplog \o <<Op("add", new_env_paths, 258, "ok", ""),
                                 Op("commit", args.new_release, 262, "ok", "")>>
          /\ pc' = "push"
    /\ UNCHANGED <<args, n_repos, i_repo, pr_links, calls, fs, latest_envs, planned_latest,
                   already_existing, w_idx, new_env_paths, branch_exists, head, pr_url,
                   raising, skip, notEnv>>

\* Lines 418-425: git push [--force-with-lease] -u <remote> <branch>
PushBranch ==
    /\ pc = "push"
    /\ IF ShouldPush(args)
       THEN \E ok \in BOOLEAN :
               /\ oplog' = Append(oplog, Op("push", BranchName(args.new_release), 421, Res(ok),
                                            PushOptions(args.force_push)))
               /\ pc' = IF AfterPush(ok) = "pr" THEN "pr" ELSE AfterTry(FALSE)
       ELSE pc' = "pr" /\ UNCHANGED oplog
    /\ UNCHANGED <<args, n_repos, i_repo, pr_links, calls, fs, latest_envs, planned_latest,
                   already_existing, w_idx, new_env_paths, branch_exists, head, pr_url,
                   raising, skip, notEnv>>

\* Lines 427-438 and gh_create_pr: gh pr create, when gh is installed
CreatePr ==
    /\ pc = "pr"
    /\ IF args.create_pr
       THEN \E outcome \in {"no gh", "failed", "no url", "url"} :
               /\ oplog' = oplog
                     \o <<Op("gh_create_pr", base_branch, 434, Res(outcome = "url"), outcome)>>
                     \o (IF outcome = "no gh" THEN << >>
                         ELSE <<Op("gh pr create", base_branch, 279,
                                   Res(outcome \in {"no url", "url"}), "")>>)
               /\ pr_url' = IF outcome = "url" THEN Some(<<"pr", i_repo>>) ELSE None
       ELSE UNCHANGED <<oplog, pr_url>>
    /\ pc' = AfterTry(FALSE)
    /\ UNCHANGED <<args, n_repos, i_repo, pr_links, calls, fs, latest_envs, planned_latest,
                   already_existing, w_idx, new_env_paths, branch_exists, head, raising,
                   skip, notEnv>>

\* Lines 439-445: git checkout <base>, whatever way the try block was left;
\* then the return value reaches main, or the exception goes on
SwitchBack ==
    /\ pc = "finally"
    /\ oplog' = Append(oplog, Op("checkout", base_branch, 442, "ignored", ""))
    /\ \E ok \in BOOLEAN : head' = IF ok THEN "base" ELSE head
    /\ IF raising
       THEN pc' = "raised" /\ UNCHANGED <<pr_links, i_repo, pr_url>>
       ELSE ReturnToMain(pr_url)
    /\ UNCHANGED <<args, n_repos, calls, fs, latest_envs, planned_latest, already_existing,
                   w_idx, new_env_paths, branch_exists, raising, skip, notEnv>>

\* main, lines 534-540: the summary
MainFinish ==
    /\ pc = "main"
    /\ i_repo > n_repos
    /\ pc' = "done"
    /\ UNCHANGED <<args, n_repos, i_repo, pr_links, calls, runVars, notEnv>>

Next ==
    \/ MainStart
    \/ CallProcessRepoNoRepo
    \/ CallProcessRepo
    \/ GitFetch
    \/ CheckoutBase
    \/ GitPull
    \/ CheckoutFeatureBranch
    \/ WriteEnvFile
    \/ AfterWrite
    \/ GitAddAndCommit
    \/ PushBranch
    \/ CreatePr
    \/ SwitchBack
    \/ MainReceive
    \/ MainFinish

Spec == Init /\ [][Next]_vars

\* ------------------------------------------------ process_repo: the claims
\* The place of a logged call in the list of steps of the module docstring:
\* 1 the checkout of the base branch (line 375), 2 the checkout or creation of
\* the feature branch, 3 a write of an env file, 4 git add and git commit,
\* 5 the push, 6 the creation of the PR; 0 for everything else (fetch, pull,
\* the probe for the branch, the gh command inside gh_create_pr, and the
\* switch back of the finally clause)
StepRank(e) ==
    IF e.line = 375 THEN 1
    ELSE IF e.line \in {391, 394} THEN 2
    ELSE IF e.line = 403 THEN 3
    ELSE IF e.line \in {258, 262} THEN 4
    ELSE IF e.line = 421 THEN 5
    ELSE IF e.line = 434 THEN 6
    ELSE 0

LogAt(lines) == {k \in 1..Len(oplog) : oplog[k].line \in lines}

RunEnded == pc \in {"returned", "raised"}

\* C1: in every run of process_repo, whatever the flags and whatever commands
\* fail, the steps of the list (base checkout, feature branch, writes, commit,
\* push, PR) happen in that order, each call of a step is made at most once
\* and no file is written twice, and a step is only made after the step before
\* it in the list was made and succeeded.  The switch back to the base branch
\* in the finally clause is no step of the list.
C1_StepOrder ==
    /\ \A i \in 1..Len(oplog) : \A j \in 1..Len(oplog) :
          (i < j /\ StepRank(oplog[i]) > 0 /\ StepRank(oplog[j]) > 0)
             => StepRank(oplog[i]) <= StepRank(oplog[j])
    /\ Cardinality(LogAt({375})) <= 1
    /\ Cardinality(LogAt({391, 394})) <= 1
    /\ Cardinality(LogAt({258})) <= 1
    /\ Cardinality(LogAt({262})) <= 1
    /\ Cardinality(LogAt({421})) <= 1
    /\ Cardinality(LogAt({434})) <= 1
    /\ \A i \in LogAt({403}) : \A j \in LogAt({403}) :
          i # j => oplog[i].arg # oplog[j].arg
    /\ \A k \in 1..Len(oplog) :
          StepRank(oplog[k]) > 1 =>
             \E j \in 1..(k - 1) :
                /\ StepRank(oplog[j]) = StepRank(oplog[k]) - 1
                /\ oplog[j].res = "ok"

\* A run that made every step: two files written, committed, pushed, PR opened
C1_Witness ==
    /\ pc = "returned"
    /\ Cardinality({k \in LogAt({403}) : oplog[k].res = "ok"}) = 2
    /\ \E k \in LogAt({262}) : oplog[k].res = "ok"
    /\ \E k \in LogAt({421}) : oplog[k].res = "ok"
    /\ \E k \in LogAt({434}) : oplog[k].res = "ok"
    /\ Truthy(pr_url)

GitOps == {"fetch", "checkout", "pull", "rev-parse", "checkout -b", "add", "commit", "push"}

GitLog == SelectSeq(oplog, LAMBDA e : e.op \in GitOps)

\* C2: once the checkout of the base branch (line 375) has succeeded, the run
\* of process_repo ends, by a return or by an exception, with a checkout of the
\* base branch as the last git command it ran.
C2_SwitchBackLast ==
    (RunEnded /\ \E k \in LogAt({375}) : oplog[k].res = "ok") =>
        /\ Len(GitLog) > 0
        /\ GitLog[Len(GitLog)].op = "checkout"
        /\ GitLog[Len(GitLog)].arg = <<"m", "a", "i", "n">>
        /\ GitLog[Len(GitLog)].line = 442

\* A write raised after another file was written, and the run still switched
\* back
C2_Witness ==
    /\ pc = "raised"
    /\ \E k \in LogAt({403}) : oplog[k].res = "ok"
    /\ \E k \in LogAt({403}) : oplog[k].aux = "OSError"
    /\ oplog[Len(oplog)].line = 442

\* C3, as the docstring states it: when the destination of a selected latest
\* env file exists already, the repository is skipped: no feature branch is
\* checked out or created, nothing is written, committed, pushed, and no PR is
\* opened.  process_repo skips the repository only when every destination
\* exists (lines 335-337), so this does not hold.
C3_AsStated ==
    Len(already_existing) > 0 => LogAt({391, 394, 403, 258, 262, 421, 434}) = {}

\* C7: the feature branch is env-file-<new_release>; a branch that exists is
\* checked out and never created; a branch that does not exist is created from
\* the base branch, which is what is checked out then; and no env file is
\* written unless the checkout or the creation succeeded.
C7_FeatureBranch ==
    /\ \A k \in LogAt({391, 394}) :
          /\ oplog[k].arg = <<"e", "n", "v", "-", "f", "i", "l", "e", "-">> \o args.new_release
          /\ k > 1 /\ oplog[k - 1].op = "rev-parse" /\ oplog[k - 1].arg = oplog[k].arg
          /\ oplog[k - 1].res = "ok" => oplog[k].op = "checkout"
          /\ oplog[k - 1].res = "failed" =>
                oplog[k].op = "checkout -b" /\ oplog[k].aux = "base"
    /\ \A k \in LogAt({403}) :
          \E j \in 1..(k - 1) : oplog[j].line \in {391, 394} /\ oplog[j].res = "ok"
    /\ (\E k \in 1..Len(oplog) : oplog[k].op = "rev-parse" /\ oplog[k].res = "ok")
          => \A k \in 1..Len(oplog) : oplog[k].op # "checkout -b"

\* The branch existed, was checked out, and a file was written on it
C7_Witness ==
    /\ pc = "returned"
    /\ branch_exists
    /\ \E k \in LogAt({391}) : oplog[k].op = "checkout" /\ oplog[k].res = "ok"
    /\ \E k \in LogAt({403}) : oplog[k].res = "ok"

CommitOk == \E k \in LogAt({262}) : oplog[k].res = "ok"

PushOk == \E k \in LogAt({421}) : oplog[k].res = "ok"

\* C8: the push is attempted exactly when the commit succeeded and --push or
\* --create-pr is set; it carries --force-with-lease exactly when --force-push
\* is set; the creation of the PR is attempted exactly when --create-pr is set
\* and the push succeeded; without --push and --create-pr nothing is pushed
\* and no PR is opened.
C8_PushAndPr ==
    /\ LogAt({421}) # {} => CommitOk /\ (args.push \/ args.create_pr)
    /\ (RunEnded /\ CommitOk /\ (args.push \/ args.create_pr)) => LogAt({421}) # {}
    /\ \A k \in LogAt({421}) :
          /\ oplog[k].op = "push"
          /\ (oplog[k].aux = "--force-with-lease -u") <=> args.force_push
          /\ (oplog[k].aux = "-u") <=> ~args.force_push
    /\ LogAt({434, 279}) # {} => args.create_pr /\ PushOk
    /\ (RunEnded /\ args.create_pr /\ PushOk) => LogAt({434}) # {}
    /\ (~args.push /\ ~args.create_pr) => LogAt({421, 434, 279}) = {}

\* --create-pr without --push, with --force-push: pushed with the lease, PR opened
C8_Witness ==
    /\ pc = "returned"
    /\ args.create_pr /\ ~args.push /\ args.force_push
    /\ \E k \in LogAt({421}) : oplog[k].res = "ok" /\ oplog[k].aux = "--force-with-lease -u"
    /\ \E k \in LogAt({279}) : oplog[k].res = "ok"

\* ------------------------------------------------- get-dependencies.py: main
\* Run dependencies a recipe is drawn from: "p {{ p }}", "p >={{ p }}",
\* "s-b ={{ s_b }}", "q2c {{ q2c }}", "p" and "p >={{ p }},<{{ m }}"
DepUniverse ==
    { <<"p", " ", "{", "{", " ", "p", " ", "}", "}">>,
      <<"p", " ", ">", "=", "{", "{", " ", "p", " ", "}", "}">>,
      <<"s", "-", "b", " ", "=", "{", "{", " ", "s", "_", "b", " ", "}", "}">>,
      <<"q", "2", "c", " ", "{", "{", " ", "q", "2", "c", " ", "}", "}">>,
      <<"p">>,
      <<"p", " ", ">", "=", "{", "{", " ", "p", " ", "}", "}", ",", "<",
        "{", "{", " ", "m", " ", "}", "}">> }

\* Entries of the seed environment's 'dependencies': "p=1.2=h", "s-b=3",
\* "q2c=4", "m=2", "p" (no version) and a nested entry
SeedUniverse ==
    { SeedEntry(<<"p", "=", "1", ".", "2", "=", "h">>),
      SeedEntry(<<"s", "-", "b", "=", "3">>),
      SeedEntry(<<"q", "2", "c", "=", "4">>),
      SeedEntry(<<"m", "=", "2">>),
      SeedEntry(<<"p">>),
      NestedEntry }

SeqsUpTo(S, n) == UNION {[1..k -> S] : k \in 0..n}

SeedResponses ==
    {[kind |-> k, deps |-> << >>] :
        k \in {"request_error", "yaml_error", "not_mapping", "no_deps"}}
    \cup {[kind |-> "deps", deps |-> d] : d \in SeqsUpTo(SeedUniverse, MaxSeed)}

Recipes ==
    {[has_run |-> FALSE, run |-> << >>]}
    \cup {[has_run |-> TRUE, run |-> r] : r \in SeqsUpTo(DepUniverse, MaxDeps)}

\* The repositories YAML file
Repositories ==
    << [name |-> <<"q", "2", "c">>, url |-> "https://github.com/o/q2c"],
       [name |-> <<"q", "2", "d">>, url |-> "https://github.com/o/q2d"] >>

InitDeps ==
    /\ d_resp \in SeedResponses
    /\ d_recipe \in Recipes
    /\ d_seed = << >>
    /\ d_i = 0
    /\ d_deps = << >>
    /\ d_qiime = << >>
    /\ d_out = << >>
    /\ d_urls = << >>
    /\ d_exc = ""
    /\ d_pc = "start"
    /\ SelIdle /\ WriteIdle /\ TagIdle /\ MsIdle /\ EnvIdle

\* main, line 123: fetch_seed_environment returns, or an exception it does not
\* catch ends the run
DepFetchSeed ==
    /\ d_pc = "start"
    /\ LET r == fetch_seed_environment(d_resp)
       IN  IF r.raised = ""
           THEN d_seed' = r.value /\ d_i' = 1 /\ d_pc' = "recipe" /\ UNCHANGED d_exc
           ELSE d_exc' = r.raised /\ d_pc' = "raised" /\ UNCHANGED <<d_seed, d_i>>
    /\ UNCHANGED <<d_resp, d_recipe, d_deps, d_qiime, d_out, d_urls,
                   selVars, writeVars, tagVars, msVars, envVars>>

\* main, lines 169-190: one round of the loop over run_deps
DepRunDep ==
    /\ d_pc = "recipe"
    /\ d_recipe.has_run
    /\ d_i <= Len(d_recipe.run)
    /\ LET dep == ResolveDep(RecipeString(d_recipe.run[d_i]), d_seed)
       IN  /\ d_deps' = Append(d_deps, dep)
           /\ IF Len(Strip(dep)) = 0
              THEN d_exc' = "IndexError" /\ d_pc' = "raised" /\ UNCHANGED <<d_qiime, d_i>>
              ELSE /\ d_qiime' = IF IsQiimeName(FirstWord(dep))
                                 THEN Append(d_qiime, FirstWord(dep)) ELSE d_qiime
                   /\ d_i' = d_i + 1
                   /\ UNCHANGED <<d_exc, d_pc>>
    /\ UNCHANGED <<d_resp, d_recipe, d_seed, d_out, d_urls,
                   selVars, writeVars, tagVars, msVars, envVars>>

\* main, lines 197-243: environment.yml and repo-urls.txt are written
DepWrite ==
    /\ d_pc = "recipe"
    /\ ~d_recipe.has_run \/ d_i > Len(d_recipe.run)
    /\ d_out' = WrittenDependencies(d_deps)
    /\ d_urls' = RepoUrls(d_qiime, Repositories)
    /\ d_pc' = "done"
    /\ UNCHANGED <<d_resp, d_recipe, d_seed, d_i, d_deps, d_qiime, d_exc,
                   selVars, writeVars, tagVars, msVars, envVars>>

NextDeps ==
    \/ DepFetchSeed
    \/ DepRunDep
    \/ DepWrite

SpecDeps == InitDeps /\ [][NextDeps]_vars

\* The comparison operators of a conda version specification
ComparisonOperators ==
    { <<"=">>, <<"=", "=">>, <<">", "=">>, <<"<", "=">>, <<"<">>, <<">">> }

\* Every maximal run of operator characters in s is one comparison operator
OneOperatorEach(s) ==
    \A i \in 1..Len(s) :
        (s[i] \in OpChars /\ (i = 1 \/ s[i - 1] \notin OpChars))
           => SubSeq(s, i, RunEnd(s, i, OpChars)) \in ComparisonOperators

\* The run dependencies of the recipe that hold a placeholder {{ name }}
WithPlaceholder ==
    {k \in 1..Len(d_recipe.run) : Len(FindPlaceholders(d_recipe.run[k], 1)) > 0}

\* C11, as stated: for every run dependency with a placeholder, the written
\* dependency has no "{{" left and every version in it is preceded by exactly
\* one comparison operator.  When the seed environment has no version of the
\* package, the default of process_placeholder, which starts with ">=", is put
\* after the operator, so this does not hold.
C11_AsStated ==
    d_pc = "done" =>
        \A k \in WithPlaceholder :
            /\ ~Contains(d_out[k], LBraces)
            /\ OneOperatorEach(d_out[k])

\* C12, as stated: fetch_seed_environment always returns a dictionary, which
\* has the package of every string entry of 'dependencies', and is empty when
\* fetching or parsing failed.  An entry without "=" raises IndexError, and a
\* document that is no mapping AttributeError, so this does not hold.
C12_AsStated ==
    d_pc \notin {"idle", "start"} =>
        /\ d_pc # "raised"
        /\ d_resp.kind = "deps" =>
              \A k \in 1..Len(d_resp.deps) :
                  d_resp.deps[k].str =>
                     Split(d_resp.deps[k].text, <<"=">>)[1] \in DOMAIN d_seed
        /\ d_resp.kind \in {"request_error", "yaml_error"} => d_seed = << >>

\* ------------------------------------------ update-env-files.py: main's loop
\* C13, as stated: when main has ended, process_repo was called once for every
\* repository of the command line, in order, whatever happened to the earlier
\* ones.  An exception process_repo does not catch ends main at once, so this
\* does not hold.
C13_AsStated ==
    pc \in {"done", "raised"} => calls = [k \in 1..n_repos |-> k]

\* A step of a run that did not succeed
SomeStepFailed ==
    \E k \in LogAt({375, 391, 394, 258, 262, 421, 434}) : oplog[k].res = "failed"

\* The URL gh printed in this run of process_repo, if any
UrlsOfRun ==
    IF \E k \in LogAt({434}) : oplog[k].aux = "url" THEN <<<<"pr", i_repo>>>> ELSE << >>

C13_State ==
    /\ Len(calls) <= n_repos
    /\ calls = [k \in 1..Len(calls) |-> k]
    /\ pc = "done" => Len(calls) = n_repos
    /\ pc = "raised" => raising /\ Len(calls) = i_repo
    /\ (pc = "returned" /\ (skip # "" \/ SomeStepFailed)) => pr_url = None
    /\ \A k \in 1..Len(pr_links) :
          /\ pr_links[k][1] = "pr"
          /\ pr_links[k][2] \in SeqRange(calls)
          /\ k > 1 => pr_links[k - 1][2] < pr_links[k][2]

C13_Step ==
    (pc = "returned" /\ pc' = "main") =>
        /\ pr_links' = pr_links \o UrlsOfRun
        /\ i_repo' = i_repo + 1
        /\ calls' = calls

\* C13: main calls process_repo for the repositories in the given order, each
\* once; a repository that is skipped, or whose checkout, commit, push or PR
\* creation fails, yields no URL and the loop goes on with the next one; when
\* main reaches its end every repository was handled and pr_links holds
\* exactly the URLs gh printed, in repository order.  Only an exception that
\* leaves process_repo ends the loop early, after the call that raised it.
C13_MainLoop == [](C13_State) /\ [][C13_Step]_vars

\* The first repository yielded no URL, the second a PR
C13_Witness ==
    /\ pc = "done"
    /\ n_repos = 2
    /\ calls = <<1, 2>>
    /\ pr_links = <<<<"pr", 2>>>>

====
